---------------------------- MODULE Spec2Model ----------------------------
(***************************************************************************)
(* Blackjack advisor and finite-shoe Monte Carlo estimator.                *)
(*                                                                         *)
(* Two source files define the same functions: blackjack.py (the strict    *)
(* variant: the advisor and the aggregator validate their arguments) and   *)
(* bj_con.py (the lenient variant: no validation, plus the history of      *)
(* cards seen in earlier rounds).  The variable `module` says which file   *)
(* the call under study belongs to.                                        *)
(***************************************************************************)
EXTENDS Integers, Sequences, FiniteSets, TLC

VARIABLES
    module,              \* "blackjack" (strict) or "bj_con" (lenient)
    players_hands,       \* argument: sequence of hands (sequences of ranks)
    dealer_upcard,       \* argument
    num_decks,           \* argument
    simulations,         \* argument
    cards_seen_history,  \* argument (bj_con only; <<>> in blackjack)
    base_shoe_full,      \* build_shoe(num_decks), made once per call
    known_cards,         \* current_round_cards / known_cards_initial
    shoe,                \* the trial's private copy of the shoe
    wins, pushes, losses,\* per-player counters
    dealer_totals,       \* Counter: dealer final total -> occurrences
    hidden_card_counts,  \* Counter: hidden rank -> occurrences
    trial,               \* number of completed iterations of the trial loop
    hidden,              \* the dealer's hidden card of the current trial
    idx,                 \* index (1-based) of the player hand being played
    total, soft, action, \* locals of the player loop
    player_results,      \* list of <<busted, total>> of the current trial
    d_total, d_soft,     \* locals of the dealer loop
    results,             \* the returned list of fraction triples
    raised,              \* the exception that left the call, or "none"
    pc,                  \* position in the code
    last_draw,           \* the most recent draw of the trial (observer)
    taken,               \* Counter of ranks taken out of the shoe (observer)
    prev_shoe            \* the shoe before the last shoe operation (observer)

vars == << module, players_hands, dealer_upcard, num_decks, simulations,
           cards_seen_history, base_shoe_full, known_cards, shoe,
           wins, pushes, losses, dealer_totals, hidden_card_counts, trial,
           hidden, idx, total, soft, action, player_results, d_total, d_soft,
           results, raised, pc, last_draw, taken, prev_shoe >>

-----------------------------------------------------------------------------
(* Bounds of the model *)

\* largest value of `simulations` tried in the aggregator calls
MaxSims == 2
\* largest number of decks of the shoe algebra checks
MaxDecks == 1
\* longest hand given to compute_total_and_soft
MaxCards == 4
\* longest list of known cards given to remove_known_cards
MaxKnown == 2
\* number of times the advisor is called on the same arguments
MaxCalls == 2
\* number of list positions random.choice may pick when a whole shoe is
\* drawn out: the last one and the PickWidth - 1 first ones
PickWidth == 2

-----------------------------------------------------------------------------
(* Cards, actions, and small helpers *)

Ranks == 2..11
\* a fallback that deals the Ace as 1
PopulationAceLow == 1..10
\* _draw_card: population of the infinite deck (every weight is positive)
Population == 2..11

Hit == "Hit"
Stand == "Stand"
Double == "Double"
ValueError == "ValueError"

Range(s) == { s[i] : i \in 1..Len(s) }

RECURSIVE Repeat(_, _)
\* Python's  seq * n
Repeat(s, n) == IF n <= 0 THEN << >> ELSE s \o Repeat(s, n - 1)

RECURSIVE Concat(_)
\* the concatenation of a sequence of sequences
Concat(ss) == IF ss = << >> THEN << >> ELSE Head(ss) \o Concat(Tail(ss))

\* number of occurrences of x in the list s
Count(s, x) == Cardinality({ i \in 1..Len(s) : s[i] = x })

\* collections.Counter: a missing key counts 0
CounterGet(c, k) == IF k \in DOMAIN c THEN c[k] ELSE 0
\* counter[k] = 1: a key is marked as seen, its occurrences are not counted
CounterIncrSeen(c, k) == IF k \in DOMAIN c THEN [c EXCEPT ![k] = 1]
                         ELSE c @@ (k :> 1)
CounterIncr(c, k) == IF k \in DOMAIN c THEN [c EXCEPT ![k] = @ + 1]
                     ELSE c @@ (k :> 1)
EmptyCounter == [k \in {} |-> 0]
RECURSIVE CounterSum(_)
CounterSum(c) == IF DOMAIN c = {} THEN 0
                 ELSE LET k == CHOOSE x \in DOMAIN c : TRUE
                      IN c[k] + CounterSum([j \in DOMAIN c \ {k} |-> c[j]])

-----------------------------------------------------------------------------
(* Hand Value Engine *)

\* an _apply_card that never turns a soft hand hard
_apply_cardNoConversion(t, s, card) ==
    IF card = 11
    THEN (IF t + 11 <= 21 THEN << t + 11, TRUE >> ELSE << t + 1, s >>)
    ELSE << t + card, s >>

\* an _apply_card that takes 10 off every total over 21, soft or not
_apply_cardAlwaysConverts(t, s, card) ==
    LET t1 == IF card = 11
              THEN (IF t + 11 <= 21 THEN t + 11 ELSE t + 1)
              ELSE t + card
        s1 == IF card = 11 /\ t + 11 <= 21 THEN TRUE ELSE s
    IN IF t1 > 21 THEN << t1 - 10, FALSE >> ELSE << t1, s1 >>

\* _apply_card(total, is_soft, card) -> <<total, is_soft>>
_apply_card(t, s, card) ==
    LET t1 == IF card = 11
              THEN (IF t + 11 <= 21 THEN t + 11 ELSE t + 1)
              ELSE t + card
        s1 == IF card = 11 /\ t + 11 <= 21 THEN TRUE ELSE s
    IN IF t1 > 21 /\ s1 THEN << t1 - 10, FALSE >> ELSE << t1, s1 >>

RECURSIVE ApplyAll(_, _, _)
ApplyAll(t, s, cards) ==
    IF cards = << >> THEN << t, s >>
    ELSE LET r == _apply_card(t, s, Head(cards))
         IN ApplyAll(r[1], r[2], Tail(cards))

\* compute_total_and_soft(cards)
compute_total_and_soft(cards) == ApplyAll(0, FALSE, cards)

-----------------------------------------------------------------------------
(* Decision Table *)

\* the soft-hand block of blackjack_advisor; "fall" when no return is taken
SoftBlock(t, d) ==
    IF t <= 17 /\ t \in {13, 14} THEN (IF 5 <= d /\ d <= 6 THEN Double ELSE Hit)
    ELSE IF t <= 17 /\ t \in {15, 16} THEN (IF 4 <= d /\ d <= 6 THEN Double ELSE Hit)
    ELSE IF t <= 17 /\ t = 17 THEN (IF 3 <= d /\ d <= 6 THEN Double ELSE Hit)
    ELSE IF t = 18 THEN (IF d \in {2, 7, 8} THEN Stand
                         ELSE IF 3 <= d /\ d <= 6 THEN Double
                         ELSE Hit)
    ELSE IF t >= 19 THEN Stand
    ELSE "fall"

\* a hard-hand block without the exception for 12 against 2 or 3
HardBlockNoException(t, d) ==
    IF t <= 8 THEN Hit
    ELSE IF t = 9 THEN (IF 3 <= d /\ d <= 6 THEN Double ELSE Hit)
    ELSE IF t = 11 THEN (IF d <= 10 THEN Double ELSE Hit)
    ELSE IF t = 10 THEN (IF d <= 9 THEN Double ELSE Hit)
    ELSE IF 12 <= t /\ t <= 16 THEN (IF d <= 6 THEN Stand ELSE Hit)
    ELSE Stand

\* the hard-hand block of blackjack_advisor
HardBlock(t, d) ==
    IF t <= 8 THEN Hit
    ELSE IF t = 9 THEN (IF 3 <= d /\ d <= 6 THEN Double ELSE Hit)
    ELSE IF t \in {10, 11} THEN
         (IF t = 11 THEN (IF d <= 10 THEN Double ELSE Hit)
          ELSE (IF d <= 9 THEN Double ELSE Hit))
    ELSE IF 12 <= t /\ t <= 16 THEN
         (IF d <= 6 THEN (IF t = 12 /\ d \in {2, 3} THEN Hit ELSE Stand)
          ELSE Hit)
    ELSE IF t >= 17 THEN Stand
    ELSE Hit

\* the table shared by both files, after their different preambles
AdvisorTable(t, d, s) ==
    IF s /\ SoftBlock(t, d) # "fall" THEN SoftBlock(t, d) ELSE HardBlock(t, d)

\* blackjack_advisor(player_total, dealer_card, is_soft_hand) of file m:
\* an Action, or ValueError when the strict variant raises
blackjack_advisor(m, t, d, s) ==
    IF m = "blackjack"
    THEN IF ~(4 <= t /\ t <= 21) THEN ValueError
         ELSE IF ~(2 <= d /\ d <= 11) THEN ValueError
         ELSE AdvisorTable(t, d, s)
    ELSE IF ~(4 <= t /\ t <= 21) /\ t > 21 THEN Stand
         ELSE AdvisorTable(t, d, s)

-----------------------------------------------------------------------------
(* Shoe *)

\* one deck, in the order each file appends it
OneDeck(m) ==
    IF m = "blackjack"
    THEN Concat([r \in 1..8 |-> Repeat(<< r + 1 >>, 4)])
         \o Repeat(<< 10 >>, 16) \o Repeat(<< 11 >>, 4)
    ELSE Repeat(<< 2, 3, 4, 5, 6, 7, 8, 9 >>, 4)
         \o Repeat(<< 10 >>, 16) \o Repeat(<< 11 >>, 4)

\* build_shoe(num_decks): range(n) is empty for n <= 0
build_shoe(m, n) == Repeat(OneDeck(m), n)

\* a removal that drops every occurrence of x
ListRemoveAll(s, x) ==
    IF x \notin Range(s) THEN [raised |-> TRUE, list |-> s]
    ELSE [raised |-> FALSE, list |-> SelectSeq(s, LAMBDA y : y # x)]

\* list.remove(x): drops the first occurrence of x; raises ValueError, and
\* leaves the list alone, when x is absent
ListRemove(s, x) ==
    IF x \notin Range(s) THEN [raised |-> TRUE, list |-> s]
    ELSE LET i == CHOOSE k \in 1..Len(s) :
                      s[k] = x /\ \A j \in 1..(k - 1) : s[j] # x
         IN [raised |-> FALSE,
             list |-> SubSeq(s, 1, i - 1) \o SubSeq(s, i + 1, Len(s))]

RECURSIVE remove_known_cardsUncaught(_, _)
\* a removal whose ValueError is not caught: the loop ends at the first
\* absent card
remove_known_cardsUncaught(s, known) ==
    IF known = << >> THEN s
    ELSE LET r == ListRemove(s, Head(known))
         IN IF r.raised THEN s
            ELSE remove_known_cardsUncaught(r.list, Tail(known))

RECURSIVE remove_known_cards(_, _)
\* remove_known_cards(shoe, known_cards): the shoe after the in-place removal;
\* the ValueError of an absent card is caught and passed over
remove_known_cards(s, known) ==
    IF known = << >> THEN s
    ELSE LET r == ListRemove(s, Head(known))
         IN IF r.raised THEN remove_known_cards(s, Tail(known))
            ELSE remove_known_cards(r.list, Tail(known))

\* draw_from_shoe(shoe): the possible (card, shoe after) pairs of a non-empty
\* shoe: random.choice picks any position, list.remove drops that value
DrawAt(s, i) == [card |-> s[i], shoe |-> ListRemove(s, s[i]).list]
draw_from_shoe(s) == { DrawAt(s, i) : i \in 1..Len(s) }

\* try: draw_from_shoe(shoe)  except RuntimeError: _draw_card()
DrawOrFallback(s) ==
    IF s = << >>
    THEN { [card |-> c, shoe |-> s, fallback |-> TRUE] : c \in Population }
    ELSE { [card |-> o.card, shoe |-> o.shoe, fallback |-> FALSE] :
             o \in draw_from_shoe(s) }

-----------------------------------------------------------------------------
(* Outcome Aggregator: estimate_win_probabilities_multi *)

NoDraw == [who |-> "none", card |-> 0, fallback |-> FALSE, empty |-> FALSE]
Zeros(n) == [i \in 1..n |-> 0]

\* the locals of one trial, as they are before the trial assigns them: a
\* trial reads none of them before it has written it, so what the trial
\* before left in them is dropped at the head of the next one
TrialLocalsUnset ==
    /\ hidden' = 0
    /\ idx' = 0
    /\ total' = 0
    /\ soft' = FALSE
    /\ action' = "none"
    /\ player_results' = << >>
    /\ d_total' = 0
    /\ d_soft' = FALSE
    /\ last_draw' = NoDraw

\* the argument checks at the head of the aggregator: the exception raised,
\* or "none".  Only blackjack.py has them.
Validate(m, decks, sims) ==
    IF m = "blackjack" /\ decks <= 0 THEN ValueError
    ELSE IF m = "blackjack" /\ sims <= 0 THEN ValueError
    ELSE "none"

\* the call up to the head of the trial loop: validation, zeroed counters,
\* the base shoe and the list of cards on the table
Enter ==
    /\ pc = "call"
    /\ LET v == Validate(module, num_decks, simulations)
       IN IF v # "none"
          THEN /\ raised' = v
               /\ pc' = "raised"
               /\ UNCHANGED << base_shoe_full, known_cards, wins, pushes,
                               losses, dealer_totals, hidden_card_counts >>
          ELSE /\ raised' = raised
               /\ pc' = "loop"
               /\ wins' = Zeros(Len(players_hands))
               /\ pushes' = Zeros(Len(players_hands))
               /\ losses' = Zeros(Len(players_hands))
               /\ dealer_totals' = EmptyCounter
               /\ hidden_card_counts' = EmptyCounter
               /\ base_shoe_full' = build_shoe(module, num_decks)
               /\ known_cards' = << dealer_upcard >> \o Concat(players_hands)
    /\ UNCHANGED << module, players_hands, dealer_upcard, num_decks,
                    simulations, cards_seen_history, shoe, trial, hidden, idx,
                    total, soft, action, player_results, d_total, d_soft,
                    results, last_draw, taken, prev_shoe >>

\* a trial loop that builds the shoe once and lets every trial draw from it
TrialShoeShared(base, leftover, history, known) ==
    IF trial = 0
    THEN remove_known_cards(remove_known_cards(base, history), known)
    ELSE leftover

\* the shoe a trial starts from: a copy of the base shoe, less the history,
\* less the cards on the table
TrialShoe(base, leftover, history, known) ==
    remove_known_cards(remove_known_cards(base, history), known)

\* head of an iteration of  for _ in range(simulations)
TrialStart ==
    /\ pc = "loop"
    /\ trial < simulations
    /\ shoe' = TrialShoe(base_shoe_full, shoe, cards_seen_history, known_cards)
    /\ pc' = "hidden"
    /\ TrialLocalsUnset
    /\ UNCHANGED << module, players_hands, dealer_upcard, num_decks,
                    simulations, cards_seen_history, base_shoe_full,
                    known_cards, wins, pushes, losses, dealer_totals,
                    hidden_card_counts, trial, results, raised, taken,
                    prev_shoe >>

\* what a draw leaves in the observer
Drawn(who, o) ==
    [who |-> who, card |-> o.card, fallback |-> o.fallback, empty |-> shoe = << >>]

\* a hidden card that is looked at and left in the shoe
DrawHiddenKeepsCard ==
    /\ pc = "hidden"
    /\ \E o \in DrawOrFallback(shoe) :
         /\ hidden' = o.card
         /\ last_draw' = Drawn("hidden", o)
    /\ shoe' = shoe
    /\ hidden_card_counts' = CounterIncr(hidden_card_counts, hidden')
    /\ player_results' = << >>
    /\ idx' = 1
    /\ pc' = "player"
    /\ UNCHANGED << module, players_hands, dealer_upcard, num_decks,
                    simulations, cards_seen_history, base_shoe_full,
                    known_cards, wins, pushes, losses, dealer_totals, trial,
                    total, soft, action, d_total, d_soft, results, raised,
                    taken, prev_shoe >>

\* step 4: the dealer's hidden card
DrawHidden ==
    /\ pc = "hidden"
    /\ \E o \in DrawOrFallback(shoe) :
         /\ hidden' = o.card
         /\ shoe' = o.shoe
         /\ last_draw' = Drawn("hidden", o)
    /\ hidden_card_counts' = CounterIncr(hidden_card_counts, hidden')
    /\ player_results' = << >>
    /\ idx' = 1
    /\ pc' = "player"
    /\ UNCHANGED << module, players_hands, dealer_upcard, num_decks,
                    simulations, cards_seen_history, base_shoe_full,
                    known_cards, wins, pushes, losses, dealer_totals, trial,
                    total, soft, action, d_total, d_soft, results, raised,
                    taken, prev_shoe >>

\* head of the player loop body: the hand's total and the first table lookup
PlayerStart ==
    /\ pc = "player"
    /\ idx <= Len(players_hands)
    /\ LET ts == compute_total_and_soft(players_hands[idx])
           a == blackjack_advisor(module, ts[1], dealer_upcard, ts[2])
       IN /\ total' = ts[1]
          /\ soft' = ts[2]
          /\ IF a = ValueError
             THEN /\ raised' = ValueError
                  /\ pc' = "raised"
                  /\ action' = action
             ELSE /\ raised' = raised
                  /\ action' = a
                  /\ pc' = IF a = Double THEN "double" ELSE "hitloop"
    /\ UNCHANGED << module, players_hands, dealer_upcard, num_decks,
                    simulations, cards_seen_history, base_shoe_full,
                    known_cards, shoe, wins, pushes, losses, dealer_totals,
                    hidden_card_counts, trial, hidden, idx, player_results,
                    d_total, d_soft, results, last_draw, taken, prev_shoe >>

\* player_results.append((total > 21, total)) and on to the next hand
AppendResult(t) ==
    /\ player_results' = Append(player_results, << t > 21, t >>)
    /\ idx' = idx + 1
    /\ pc' = "player"

\* the Double branch: one card, then the hand is over
PlayerDouble ==
    /\ pc = "double"
    /\ \E o \in DrawOrFallback(shoe) :
         LET ts == _apply_card(total, soft, o.card)
         IN /\ shoe' = o.shoe
            /\ last_draw' = Drawn("player", o)
            /\ total' = ts[1]
            /\ soft' = ts[2]
            /\ AppendResult(ts[1])
    /\ UNCHANGED << module, players_hands, dealer_upcard, num_decks,
                    simulations, cards_seen_history, base_shoe_full,
                    known_cards, wins, pushes, losses, dealer_totals,
                    hidden_card_counts, trial, hidden, action, d_total,
                    d_soft, results, raised, taken, prev_shoe >>

\* a hit loop that goes on drawing when the table answers Double
PlayerDrawsOnDouble(a, t) == a \in { Hit, Double } /\ t < 22

\* the hit loop's condition:  while action == HIT and total < 22
PlayerMustDraw(a, t) == a = Hit /\ t < 22

\* one iteration of the hit loop
PlayerHit ==
    /\ pc = "hitloop"
    /\ PlayerMustDraw(action, total)
    /\ \E o \in DrawOrFallback(shoe) :
         LET ts == _apply_card(total, soft, o.card)
             a == blackjack_advisor(module, ts[1], dealer_upcard, ts[2])
         IN /\ shoe' = o.shoe
            /\ last_draw' = Drawn("player", o)
            /\ total' = ts[1]
            /\ soft' = ts[2]
            /\ IF ts[1] > 21
               THEN /\ action' = action
                    /\ raised' = raised
                    /\ AppendResult(ts[1])
               ELSE IF a = ValueError
               THEN /\ action' = action
                    /\ raised' = ValueError
                    /\ pc' = "raised"
                    /\ UNCHANGED << player_results, idx >>
               ELSE /\ action' = a
                    /\ raised' = raised
                    /\ pc' = "hitloop"
                    /\ UNCHANGED << player_results, idx >>
    /\ UNCHANGED << module, players_hands, dealer_upcard, num_decks,
                    simulations, cards_seen_history, base_shoe_full,
                    known_cards, wins, pushes, losses, dealer_totals,
                    hidden_card_counts, trial, hidden, d_total, d_soft,
                    results, taken, prev_shoe >>

\* the while condition is false: the hand is over without a further draw
PlayerStop ==
    /\ pc = "hitloop"
    /\ ~PlayerMustDraw(action, total)
    /\ AppendResult(total)
    /\ UNCHANGED << module, players_hands, dealer_upcard, num_decks,
                    simulations, cards_seen_history, base_shoe_full,
                    known_cards, shoe, wins, pushes, losses, dealer_totals,
                    hidden_card_counts, trial, hidden, total, soft, action,
                    d_total, d_soft, results, raised, last_draw, taken,
                    prev_shoe >>

\* a dealer that stands on every 17
DealerStandsOnSoft17(t, s) == t < 17

\* the dealer's loop condition
DealerMustDraw(t, s) == t < 17 \/ (t = 17 /\ s)

\* step 6, before the loop: upcard plus hidden card
DealerStart ==
    /\ pc = "player"
    /\ idx > Len(players_hands)
    /\ LET ts == _apply_card(dealer_upcard, dealer_upcard = 11, hidden)
       IN /\ d_total' = ts[1]
          /\ d_soft' = ts[2]
    /\ pc' = "dealer"
    /\ UNCHANGED << module, players_hands, dealer_upcard, num_decks,
                    simulations, cards_seen_history, base_shoe_full,
                    known_cards, shoe, wins, pushes, losses, dealer_totals,
                    hidden_card_counts, trial, hidden, idx, total, soft,
                    action, player_results, results, raised, last_draw,
                    taken, prev_shoe >>

\* one iteration of the dealer's while loop
DealerDraw ==
    /\ pc = "dealer"
    /\ DealerMustDraw(d_total, d_soft)
    /\ \E o \in DrawOrFallback(shoe) :
         LET ts == _apply_card(d_total, d_soft, o.card)
         IN /\ shoe' = o.shoe
            /\ last_draw' = Drawn("dealer", o)
            /\ d_total' = ts[1]
            /\ d_soft' = ts[2]
    /\ UNCHANGED << module, players_hands, dealer_upcard, num_decks,
                    simulations, cards_seen_history, base_shoe_full,
                    known_cards, wins, pushes, losses, dealer_totals,
                    hidden_card_counts, trial, hidden, idx, total, soft,
                    action, player_results, results, raised, pc, taken,
                    prev_shoe >>

\* the dealer's loop is over: dealer_totals[d_total] += 1
DealerStand ==
    /\ pc = "dealer"
    /\ ~DealerMustDraw(d_total, d_soft)
    /\ dealer_totals' = CounterIncr(dealer_totals, d_total)
    /\ pc' = "score"
    /\ UNCHANGED << module, players_hands, dealer_upcard, num_decks,
                    simulations, cards_seen_history, base_shoe_full,
                    known_cards, shoe, wins, pushes, losses,
                    hidden_card_counts, trial, hidden, idx, total, soft,
                    action, player_results, d_total, d_soft, results, raised,
                    last_draw, taken, prev_shoe >>

\* a scoring that lets a busted player win against a busted dealer
OutcomeDealerBustFirst(busted, p_total, dt) ==
    IF dt > 21 THEN "win"
    ELSE IF busted THEN "loss"
    ELSE IF dt < p_total THEN "win"
    ELSE IF dt = p_total THEN "push"
    ELSE "loss"

\* a scoring loop that counts a win and forgets the tie
ScoredNoPush(counter, what) ==
    [i \in 1..Len(counter) |->
        IF i <= Len(player_results) /\ what # "push"
           /\ (IF player_results[i][1] THEN "loss"
               ELSE IF d_total > 21 THEN "win"
               ELSE IF d_total < player_results[i][2] THEN "win"
               ELSE IF d_total = player_results[i][2] THEN "push"
               ELSE "loss") = what
        THEN counter[i] + 1 ELSE counter[i]]

\* step 7 for one player: "win", "push" or "loss"
Outcome(busted, p_total, dt) ==
    IF busted THEN "loss"
    ELSE IF dt > 21 THEN "win"
    ELSE IF dt < p_total THEN "win"
    ELSE IF dt = p_total THEN "push"
    ELSE "loss"

\* a counter list after the scoring loop: +1 where the outcome is `what`
Scored(counter, what) ==
    [i \in 1..Len(counter) |->
        IF i <= Len(player_results)
           /\ Outcome(player_results[i][1], player_results[i][2], d_total) = what
        THEN counter[i] + 1 ELSE counter[i]]

\* step 7: the scoring loop, and the end of the trial
Score ==
    /\ pc = "score"
    /\ wins' = Scored(wins, "win")
    /\ pushes' = Scored(pushes, "push")
    /\ losses' = Scored(losses, "loss")
    /\ trial' = trial + 1
    /\ pc' = "loop"
    /\ UNCHANGED << module, players_hands, dealer_upcard, num_decks,
                    simulations, cards_seen_history, base_shoe_full,
                    known_cards, shoe, dealer_totals, hidden_card_counts,
                    hidden, idx, total, soft, action, player_results,
                    d_total, d_soft, results, raised, last_draw, taken,
                    prev_shoe >>

\* the loop is over: the fractions, each kept as <<count, simulations>>
Return ==
    /\ pc = "loop"
    /\ trial >= simulations
    /\ IF Len(players_hands) > 0 /\ simulations = 0
       THEN /\ raised' = "ZeroDivisionError"
            /\ pc' = "raised"
            /\ results' = results
       ELSE /\ raised' = raised
            /\ pc' = "returned"
            /\ results' = [i \in 1..Len(players_hands) |->
                              << << wins[i], simulations >>,
                                 << pushes[i], simulations >>,
                                 << losses[i], simulations >> >>]
    /\ UNCHANGED << module, players_hands, dealer_upcard, num_decks,
                    simulations, cards_seen_history, base_shoe_full,
                    known_cards, shoe, wins, pushes, losses, dealer_totals,
                    hidden_card_counts, trial, hidden, idx, total, soft,
                    action, player_results, d_total, d_soft, last_draw,
                    taken, prev_shoe >>

\* return results, dealer_totals, hidden_card_counts: the two Counter
\* objects of the trial loop are handed back as they are
Returned == << results, dealer_totals, hidden_card_counts >>

-----------------------------------------------------------------------------
(* The calls studied *)

\* a history that has seen every card of the shoe except `left`
HistoryLeaving(m, decks, left) ==
    remove_known_cards(build_shoe(m, decks), left)

\* the calls of the aggregator: file, hands, upcard, decks, history
Calls ==
    { \* blackjack.py, a full deck, a hand that stands
      [m |-> "blackjack", hands |-> << << 10, 7 >> >>, up |-> 10, decks |-> 1,
       history |-> << >>],
      \* blackjack.py, a hand already over 21
      [m |-> "blackjack", hands |-> << << 10, 10, 5 >> >>, up |-> 10,
       decks |-> 1, history |-> << >>],
      \* blackjack.py, no deck
      [m |-> "blackjack", hands |-> << << 10, 7 >> >>, up |-> 10, decks |-> 0,
       history |-> << >>],
      \* bj_con.py, a full deck, a hand that stands and a hand over 21
      [m |-> "bj_con", hands |-> << << 10, 7 >>, << 10, 10, 5 >> >>, up |-> 10,
       decks |-> 1, history |-> << >>],
      \* bj_con.py, no players
      [m |-> "bj_con", hands |-> << >>, up |-> 6, decks |-> 1,
       history |-> HistoryLeaving("bj_con", 1, << 6, 11, 10, 5 >>)],
      \* bj_con.py, no deck: every draw is a fallback draw
      [m |-> "bj_con", hands |-> << << 10, 7 >> >>, up |-> 10, decks |-> 0,
       history |-> << >>],
      \* bj_con.py, a hand that hits; the history has seen all but one card,
      \* the cards on the table included
      [m |-> "bj_con", hands |-> << << 10, 6 >> >>, up |-> 10, decks |-> 1,
       history |-> HistoryLeaving("bj_con", 1, << 2 >>)],
      \* bj_con.py, two hands that double; three cards are left for the trial
      [m |-> "bj_con", hands |-> << << 11, 6 >>, << 5, 6 >> >>, up |-> 6,
       decks |-> 1,
       history |-> HistoryLeaving("bj_con", 1,
                                  << 6, 11, 6, 5, 6, 11, 10, 3 >>)],
      \* bj_con.py, a hand that doubles at once and a hand that hits first;
      \* three cards are left for the trial
      [m |-> "bj_con", hands |-> << << 5, 4 >>, << 4, 2 >> >>, up |-> 3,
       decks |-> 1,
       history |-> HistoryLeaving("bj_con", 1,
                                  << 3, 5, 4, 4, 2, 3, 3, 10 >>)] }

Init ==
    /\ \E c \in Calls :
         /\ module = c.m
         /\ players_hands = c.hands
         /\ dealer_upcard = c.up
         /\ num_decks = c.decks
         /\ cards_seen_history = c.history
    /\ simulations \in (-1)..MaxSims
    /\ base_shoe_full = << >>
    /\ known_cards = << >>
    /\ shoe = << >>
    /\ wins = << >> /\ pushes = << >> /\ losses = << >>
    /\ dealer_totals = EmptyCounter
    /\ hidden_card_counts = EmptyCounter
    /\ trial = 0
    /\ hidden = 0 /\ idx = 0 /\ total = 0 /\ soft = FALSE /\ action = "none"
    /\ player_results = << >>
    /\ d_total = 0 /\ d_soft = FALSE
    /\ results = << >>
    /\ raised = "none"
    /\ pc = "call"
    /\ last_draw = NoDraw
    /\ taken = EmptyCounter
    /\ prev_shoe = << >>

Next ==
    \/ Enter
    \/ TrialStart
    \/ DrawHidden
    \/ PlayerStart
    \/ PlayerDouble
    \/ PlayerHit
    \/ PlayerStop
    \/ DealerStart
    \/ DealerDraw
    \/ DealerStand
    \/ Score
    \/ Return

Spec == Init /\ [][Next]_vars

-----------------------------------------------------------------------------
(* One trial of every dealt hand, under the scheduling of a Python call *)

\* the hands dealt: two cards, the first an Ace or a 2
LiveHands == { << a, b >> : a \in { 2, 11 }, b \in Ranks }

\* bj_con.py on no deck, where every draw of the trial is a fallback draw of
\* any rank, and blackjack.py on its full deck
LiveCalls ==
    { [m |-> "bj_con", hands |-> << h >>, up |-> u, decks |-> 0] :
        h \in LiveHands, u \in { 6, 10 } }
    \cup
    { [m |-> "blackjack", hands |-> << h >>, up |-> 10, decks |-> 1] :
        h \in { << 10, 6 >> } }

InitLive ==
    /\ \E c \in LiveCalls :
         /\ module = c.m
         /\ players_hands = c.hands
         /\ dealer_upcard = c.up
         /\ num_decks = c.decks
    /\ cards_seen_history = << >>
    /\ simulations = 1
    /\ base_shoe_full = << >>
    /\ known_cards = << >>
    /\ shoe = << >>
    /\ wins = << >> /\ pushes = << >> /\ losses = << >>
    /\ dealer_totals = EmptyCounter
    /\ hidden_card_counts = EmptyCounter
    /\ trial = 0
    /\ hidden = 0 /\ idx = 0 /\ total = 0 /\ soft = FALSE /\ action = "none"
    /\ player_results = << >>
    /\ d_total = 0 /\ d_soft = FALSE
    /\ results = << >>
    /\ raised = "none"
    /\ pc = "call"
    /\ last_draw = NoDraw
    /\ taken = EmptyCounter
    /\ prev_shoe = << >>

\* the call runs on one thread that is never suspended for good: a statement
\* that can execute does execute
SpecLive == InitLive /\ [][Next]_vars /\ WF_vars(Next)

-----------------------------------------------------------------------------
(* The pure functions, each applied to bounded inputs *)

\* the sequences over S of length at most n
SeqsUpTo(S, n) == UNION { [1..k -> S] : k \in 0..n }

ArgumentsIdle ==
    /\ players_hands = << >>
    /\ dealer_upcard = 0
    /\ num_decks = 0
    /\ simulations = 0
    /\ cards_seen_history = << >>

CountersIdle ==
    /\ wins = << >> /\ pushes = << >> /\ losses = << >>
    /\ dealer_totals = EmptyCounter
    /\ hidden_card_counts = EmptyCounter
    /\ results = << >>

\* blackjack_advisor called MaxCalls times on the same arguments
InitAdvisor ==
    /\ module \in { "blackjack", "bj_con" }
    /\ total \in 4..21
    /\ dealer_upcard \in 2..11
    /\ soft \in BOOLEAN
    /\ action = "none"
    /\ trial = 0
    /\ pc = "advise"
    /\ raised = "none"
    /\ players_hands = << >> /\ num_decks = 0 /\ simulations = 0
    /\ cards_seen_history = << >>
    /\ CountersIdle
    /\ base_shoe_full = << >> /\ known_cards = << >> /\ shoe = << >>
    /\ hidden = 0 /\ idx = 0 /\ player_results = << >>
    /\ d_total = 0 /\ d_soft = FALSE
    /\ last_draw = NoDraw /\ taken = EmptyCounter /\ prev_shoe = << >>

Advise ==
    /\ pc = "advise"
    /\ trial < MaxCalls
    /\ LET a == blackjack_advisor(module, total, dealer_upcard, soft)
       IN IF a = ValueError
          THEN raised' = ValueError /\ action' = action
          ELSE raised' = raised /\ action' = a
    /\ trial' = trial + 1
    /\ UNCHANGED << module, players_hands, dealer_upcard, num_decks,
                    simulations, cards_seen_history, base_shoe_full,
                    known_cards, shoe, wins, pushes, losses, dealer_totals,
                    hidden_card_counts, hidden, idx, total, soft,
                    player_results, d_total, d_soft, results, pc, last_draw,
                    taken, prev_shoe >>

NextAdvisor == Advise

SpecAdvisor == InitAdvisor /\ [][NextAdvisor]_vars

\* compute_total_and_soft on one hand, card by card
InitHand ==
    /\ module \in { "bj_con" }
    /\ \E cards \in SeqsUpTo(Ranks, MaxCards) : players_hands = << cards >>
    /\ idx = 0
    /\ total = 0
    /\ soft = FALSE
    /\ pc = "compute"
    /\ raised = "none"
    /\ dealer_upcard = 0 /\ num_decks = 0 /\ simulations = 0
    /\ cards_seen_history = << >>
    /\ CountersIdle
    /\ base_shoe_full = << >> /\ known_cards = << >> /\ shoe = << >>
    /\ trial = 0 /\ hidden = 0 /\ action = "none" /\ player_results = << >>
    /\ d_total = 0 /\ d_soft = FALSE
    /\ last_draw = NoDraw /\ taken = EmptyCounter /\ prev_shoe = << >>

\* one iteration of  for c in cards
ApplyNext ==
    /\ pc = "compute"
    /\ idx < Len(players_hands[1])
    /\ LET ts == _apply_card(total, soft, players_hands[1][idx + 1])
       IN total' = ts[1] /\ soft' = ts[2]
    /\ idx' = idx + 1
    /\ UNCHANGED << module, players_hands, dealer_upcard, num_decks,
                    simulations, cards_seen_history, base_shoe_full,
                    known_cards, shoe, wins, pushes, losses, dealer_totals,
                    hidden_card_counts, trial, hidden, action,
                    player_results, d_total, d_soft, results, raised, pc,
                    last_draw, taken, prev_shoe >>

\* return total, soft
ComputeReturn ==
    /\ pc = "compute"
    /\ idx = Len(players_hands[1])
    /\ pc' = "computed"
    /\ UNCHANGED << module, players_hands, dealer_upcard, num_decks,
                    simulations, cards_seen_history, base_shoe_full,
                    known_cards, shoe, wins, pushes, losses, dealer_totals,
                    hidden_card_counts, trial, hidden, idx, total, soft,
                    action, player_results, d_total, d_soft, results, raised,
                    last_draw, taken, prev_shoe >>

NextHand == ApplyNext \/ ComputeReturn

SpecHand == InitHand /\ [][NextHand]_vars

\* the positions random.choice is let to pick in a list of n cards, when a
\* whole shoe is drawn out: the last one and the PickWidth - 1 first ones
Picks(n) == { i \in 1..n : i < PickWidth \/ i = n }

\* a shoe of num_decks decks, no removals, drawn until it is empty
InitDrain ==
    /\ module \in { "blackjack", "bj_con" }
    /\ num_decks \in 1..MaxDecks
    /\ shoe = build_shoe(module, num_decks)
    /\ base_shoe_full = shoe
    /\ prev_shoe = << >>
    /\ taken = EmptyCounter
    /\ last_draw = NoDraw
    /\ pc = "draw"
    /\ raised = "none"
    /\ players_hands = << >> /\ dealer_upcard = 0 /\ simulations = 0
    /\ cards_seen_history = << >>
    /\ CountersIdle
    /\ known_cards = << >>
    /\ trial = 0 /\ hidden = 0 /\ idx = 0 /\ total = 0 /\ soft = FALSE
    /\ action = "none" /\ player_results = << >>
    /\ d_total = 0 /\ d_soft = FALSE

\* draw_from_shoe on a shoe that holds a card
ShoeDraw ==
    /\ pc = "draw"
    /\ shoe # << >>
    /\ \E i \in Picks(Len(shoe)) :
         LET o == DrawAt(shoe, i)
         IN /\ shoe' = o.shoe
            /\ taken' = CounterIncr(taken, o.card)
    /\ UNCHANGED << module, players_hands, dealer_upcard, num_decks,
                    simulations, cards_seen_history, base_shoe_full,
                    known_cards, wins, pushes, losses, dealer_totals,
                    hidden_card_counts, trial, hidden, idx, total, soft,
                    action, player_results, d_total, d_soft, results, raised,
                    pc, last_draw, prev_shoe >>

\* draw_from_shoe on an empty shoe: raise RuntimeError("Shoe is empty")
ShoeDrawEmpty ==
    /\ pc = "draw"
    /\ shoe = << >>
    /\ raised' = "RuntimeError"
    /\ pc' = "raised"
    /\ UNCHANGED << module, players_hands, dealer_upcard, num_decks,
                    simulations, cards_seen_history, base_shoe_full,
                    known_cards, shoe, wins, pushes, losses, dealer_totals,
                    hidden_card_counts, trial, hidden, idx, total, soft,
                    action, player_results, d_total, d_soft, results,
                    last_draw, taken, prev_shoe >>

NextDrain == ShoeDraw \/ ShoeDrawEmpty

SpecDrain == InitDrain /\ [][NextDrain]_vars

\* the shoes remove_known_cards is tried on: whole shoes, and the shoes a
\* history has brought down to at most MaxKnown cards
StartShoes(m) ==
    { build_shoe(m, n) : n \in 0..MaxDecks }
    \cup { remove_known_cards(build_shoe(m, 1), HistoryLeaving(m, 1, left)) :
             left \in SeqsUpTo(Ranks, MaxKnown) }

\* remove_known_cards applied twice with the same list
InitRemove ==
    /\ module \in { "blackjack", "bj_con" }
    /\ shoe \in StartShoes(module)
    /\ known_cards \in SeqsUpTo(Ranks, MaxKnown)
    /\ prev_shoe = shoe
    /\ base_shoe_full = shoe
    /\ trial = 0
    /\ pc = "remove"
    /\ raised = "none"
    /\ ArgumentsIdle
    /\ CountersIdle
    /\ hidden = 0 /\ idx = 0 /\ total = 0 /\ soft = FALSE
    /\ action = "none" /\ player_results = << >>
    /\ d_total = 0 /\ d_soft = FALSE
    /\ last_draw = NoDraw /\ taken = EmptyCounter

RemovePass ==
    /\ pc = "remove"
    /\ trial < 2
    /\ prev_shoe' = shoe
    /\ shoe' = remove_known_cards(shoe, known_cards)
    /\ trial' = trial + 1
    /\ UNCHANGED << module, players_hands, dealer_upcard, num_decks,
                    simulations, cards_seen_history, base_shoe_full,
                    known_cards, wins, pushes, losses, dealer_totals,
                    hidden_card_counts, hidden, idx, total, soft, action,
                    player_results, d_total, d_soft, results, raised, pc,
                    last_draw, taken >>

NextRemove == RemovePass

SpecRemove == InitRemove /\ [][NextRemove]_vars

-----------------------------------------------------------------------------
(* Properties of the pure functions *)

C2_Soft(t, d) ==
    CASE t \in 13..14 -> IF d \in 5..6 THEN Double ELSE Hit
      [] t \in 15..16 -> IF d \in 4..6 THEN Double ELSE Hit
      [] t = 17 -> IF d \in 3..6 THEN Double ELSE Hit
      [] t = 18 -> IF d \in {2, 7, 8} THEN Stand
                   ELSE IF d \in 3..6 THEN Double ELSE Hit
      [] t >= 19 -> Stand

C2_Hard(t, d) ==
    CASE t <= 8 -> Hit
      [] t = 9 -> IF d \in 3..6 THEN Double ELSE Hit
      [] t = 10 -> IF d <= 9 THEN Double ELSE Hit
      [] t = 11 -> IF d <= 10 THEN Double ELSE Hit
      [] t \in 12..16 -> IF d <= 6 /\ ~(t = 12 /\ d \in {2, 3})
                         THEN Stand ELSE Hit
      [] t >= 17 -> Stand

\* C2: for every total in 4..21, upcard in 2..11 and soft flag, the advisor of
\* either file returns one action, the same on every call, and it is the
\* action of the fixed table (soft 13 and above by the soft rules, every
\* other case by the hard rules).
C2_AdvisorTable ==
    trial >= 1 =>
        /\ raised = "none"
        /\ action \in { Hit, Stand, Double }
        /\ action = IF soft /\ total >= 13 THEN C2_Soft(total, dealer_upcard)
                    ELSE C2_Hard(total, dealer_upcard)

\* a soft 12 (two Aces) against a 4, asked twice: the hard rule, Stand
C2_Witness ==
    /\ trial = 2
    /\ module = "bj_con"
    /\ soft /\ total = 12 /\ dealer_upcard = 4
    /\ action = Stand

RECURSIVE C5_LowSum(_)
\* the sum of a hand with every Ace counted as 1
C5_LowSum(cards) ==
    IF cards = << >> THEN 0
    ELSE (IF Head(cards) = 11 THEN 1 ELSE Head(cards)) + C5_LowSum(Tail(cards))

C5_Best(cards) ==
    LET low == C5_LowSum(cards)
        plusTen == 11 \in Range(cards) /\ low + 10 <= 21
    IN << IF plusTen THEN low + 10 ELSE low, plusTen >>

\* C5: applying the cards of a hand one at a time from (0, not soft) gives the
\* best blackjack score: the sum with every Ace as 1, plus 10 exactly when the
\* hand holds an Ace and that does not exceed 21; is_soft says whether the 10
\* is included.  It holds after every card, and of what the function returns.
C5_BestScore ==
    /\ pc \in { "compute", "computed" } =>
         << total, soft >> = C5_Best(SubSeq(players_hands[1], 1, idx))
    /\ pc = "computed" =>
         /\ idx = Len(players_hands[1])
         /\ compute_total_and_soft(players_hands[1]) = C5_Best(players_hands[1])

\* Ace, 5 (soft 16), 10 (hard 16), Ace (17): the conversion has happened
C5_Witness ==
    /\ pc = "computed"
    /\ players_hands[1] = << 11, 5, 10, 11 >>
    /\ total = 17
    /\ ~soft

C6_PerDeck(r) == IF r = 10 THEN 16 ELSE 4

\* C6: a draw from a non-empty shoe returns a rank the shoe holds and takes
\* out one occurrence of it, every other count unchanged; so the 52*N draws
\* of a fresh N-deck shoe all succeed, empty it, and give 4*N of each rank
\* 2..9, 16*N tens and 4*N Aces, and at no time does the shoe hold more of a
\* rank than its initial count less the cards taken out.
C6_DrawTakesOneCard ==
    /\ [](\A o \in draw_from_shoe(shoe) :
            /\ o.card \in Range(shoe)
            /\ Len(o.shoe) = Len(shoe) - 1
            /\ \A r \in Ranks :
                 Count(o.shoe, r) = Count(shoe, r) - (IF r = o.card THEN 1 ELSE 0))
    /\ [](shoe # << >> => draw_from_shoe(shoe) # {})
    /\ [][ (pc = "draw" /\ shoe # << >>) =>
             \E c \in Range(shoe) :
                /\ taken' = CounterIncr(taken, c)
                /\ Len(shoe') = Len(shoe) - 1
                /\ \A r \in Ranks :
                     Count(shoe', r) = Count(shoe, r) - (IF r = c THEN 1 ELSE 0)
         ]_vars
    /\ [](/\ Range(shoe) \subseteq Ranks
          /\ \A r \in Ranks :
               Count(shoe, r) + CounterGet(taken, r) = C6_PerDeck(r) * num_decks
          /\ Len(shoe) + CounterSum(taken) = 52 * num_decks)
    /\ [](raised = "RuntimeError" =>
            /\ shoe = << >>
            /\ CounterSum(taken) = 52 * num_decks)
    /\ [](shoe = << >> =>
            \A r \in Ranks : CounterGet(taken, r) = C6_PerDeck(r) * num_decks)

\* the shoe has been drawn out
C6_Witness ==
    /\ pc = "draw"
    /\ shoe = << >>
    /\ CounterSum(taken) = 52 * num_decks
    /\ CounterGet(taken, 10) = 16 * num_decks
    /\ CounterGet(taken, 11) = 4 * num_decks
    /\ CounterGet(taken, 2) = 4 * num_decks

\* C7 as stated: a second remove_known_cards with the same ranks is a no-op.
C7_SecondPassIsNoOp ==
    trial = 2 => shoe = prev_shoe

C7_Minus(a, b) == IF a > b THEN a - b ELSE 0

\* C7 as amended: a pass of remove_known_cards raises nothing and takes from
\* each rank as many cards as the list names it, or all that are left of it
\* when they are fewer, so no count goes below zero; the second pass is a
\* no-op exactly when the shoe holds none of the listed ranks after the
\* first.
C7_SecondPassTakesWhatIsLeft ==
    trial >= 1 =>
        /\ raised = "none"
        /\ \A r \in Ranks :
             Count(shoe, r) = C7_Minus(Count(prev_shoe, r), Count(known_cards, r))
        /\ Len(shoe) <= Len(prev_shoe)
        /\ (shoe = prev_shoe) <=>
               (\A r \in Range(known_cards) : Count(prev_shoe, r) = 0)

\* the second pass found none of the two listed ranks in a shoe that still
\* holds a card
C7_Witness ==
    /\ trial = 2
    /\ Len(known_cards) = 2
    /\ known_cards[1] # known_cards[2]
    /\ shoe # << >>
    /\ shoe = prev_shoe

-----------------------------------------------------------------------------
(* Properties of the aggregator, checked under Spec *)

Players == 1..Len(players_hands)

\* C1: with simulations = S >= 1 each player's wins + pushes + losses is S
\* when the run returns: after every trial the three counters of every
\* player sum to the number of trials done, each trial adds exactly one to
\* exactly one of them, and the numerators of the returned fractions sum to
\* their denominator S.
C1_CountersSumToTrials ==
    /\ [](Len(wins) > 0 =>
            /\ Len(wins) = Len(players_hands)
            /\ Len(pushes) = Len(players_hands)
            /\ Len(losses) = Len(players_hands)
            /\ \A i \in Players : wins[i] + pushes[i] + losses[i] = trial)
    /\ [][ \A i \in Players :
             pc = "score" =>
                 \E k \in 1..3 :
                     << wins'[i], pushes'[i], losses'[i] >> =
                         [<< wins[i], pushes[i], losses[i] >> EXCEPT ![k] = @ + 1]
       ]_vars
    /\ []((pc = "returned" /\ simulations >= 1) =>
            /\ trial = simulations
            /\ Len(results) = Len(players_hands)
            /\ \A i \in Players :
                 /\ wins[i] + pushes[i] + losses[i] = simulations
                 /\ results[i][1][1] + results[i][2][1] + results[i][3][1]
                      = simulations
                 /\ \A k \in 1..3 : results[i][k][2] = simulations)

C1_Witness ==
    /\ pc = "returned"
    /\ simulations = 2
    /\ Len(players_hands) = 2
    /\ wins[1] = 1 /\ pushes[1] = 1 /\ losses[2] = 2

C3_Rule(p_total, dt) ==
    IF p_total > 21 THEN "loss"
    ELSE IF dt > 21 \/ dt < p_total THEN "win"
    ELSE IF dt = p_total THEN "push"
    ELSE "loss"

\* C3: the result of a player in a trial is decided from (busted, player
\* total, dealer total): total > 21 is a loss even when the dealer busts
\* too; otherwise dealer > 21 is a win, a lower dealer total a win, an equal
\* one a push and a higher one a loss.
C3_ScoringRule ==
    [][ pc = "score" =>
          /\ Len(player_results) = Len(players_hands)
          /\ \A i \in Players :
               LET o == C3_Rule(player_results[i][2], d_total)
               IN /\ player_results[i][1] = (player_results[i][2] > 21)
                  /\ wins'[i] = wins[i] + (IF o = "win" THEN 1 ELSE 0)
                  /\ pushes'[i] = pushes[i] + (IF o = "push" THEN 1 ELSE 0)
                  /\ losses'[i] = losses[i] + (IF o = "loss" THEN 1 ELSE 0)
      ]_vars

\* both the player and the dealer are over 21, and the trial has been scored
C3_Witness ==
    /\ pc = "loop"
    /\ trial = 1
    /\ Len(player_results) = 2
    /\ player_results[2][2] > 21
    /\ d_total > 21
    /\ losses[2] = 1 /\ wins[2] = 0
    /\ wins[1] = 1

C8_InvalidArgumentsRejected ==
    (simulations <= 0 \/ num_decks <= 0) =>
        /\ pc \in { "call", "loop", "raised" }
        /\ trial = 0
        /\ hidden_card_counts = EmptyCounter
        /\ pc = "raised" => raised = ValueError

\* the next step of the trial is a draw
C9_DrawRequested ==
    \/ pc = "hidden"
    \/ pc = "double"
    \/ (pc = "hitloop" /\ action = Hit /\ total < 22)
    \/ (pc = "dealer" /\ (d_total < 17 \/ (d_total = 17 /\ d_soft)))

\* C9: a draw requested on an empty shoe does not fail the trial: the card
\* comes from the fallback and is a rank in 2..11, no error leaves the
\* aggregator, the shoe stays empty, and the trial is scored and counted.
C9_FallbackOnEmptyShoe ==
    /\ [](last_draw.who # "none" =>
            /\ last_draw.fallback = last_draw.empty
            /\ last_draw.card \in 2..11
            /\ last_draw.fallback => shoe = << >>)
    /\ [](raised # "RuntimeError")
    /\ [][ (shoe = << >> /\ C9_DrawRequested) =>
             /\ last_draw'.fallback
             /\ shoe' = << >>
             /\ pc' # "raised"
         ]_vars
    /\ []((pc = "returned" /\ simulations >= 1) =>
            /\ trial = simulations
            /\ CounterSum(hidden_card_counts) = simulations
            /\ CounterSum(dealer_totals) = simulations)

\* a deck emptied by the history and the hidden card (the last 2): the
\* player's Hit card and the dealer's card were fallback cards, and the
\* trial was scored
C9_Witness ==
    /\ pc = "loop"
    /\ trial = 1
    /\ num_decks = 1
    /\ hidden = 2
    /\ last_draw.fallback
    /\ last_draw.who = "dealer"
    /\ Len(player_results) = 1
    /\ player_results[1][2] = 21
    /\ wins[1] = 1

\* the cards of rank r a trial starts with
C10_Expected(r) ==
    LET full == (IF r = 10 THEN 16 ELSE 4) * (IF num_decks > 0 THEN num_decks ELSE 0)
        afterHistory == IF full > Count(cards_seen_history, r)
                        THEN full - Count(cards_seen_history, r) ELSE 0
        onTable == Count(<< dealer_upcard >> \o Concat(players_hands), r)
    IN IF afterHistory > onTable THEN afterHistory - onTable ELSE 0

\* C10: every trial of a run starts from the same shoe, the full shoe less
\* the history less the cards on the table, whatever earlier trials drew;
\* the history, the hands, the base shoe and the list of cards on the table
\* are never changed once made.
C10_TrialsStartAlike ==
    /\ [](pc = "hidden" =>
            /\ \A r \in Ranks : Count(shoe, r) = C10_Expected(r)
            /\ Range(shoe) \subseteq Ranks)
    /\ [][ /\ players_hands' = players_hands
           /\ cards_seen_history' = cards_seen_history
           /\ dealer_upcard' = dealer_upcard
           /\ pc # "call" => /\ base_shoe_full' = base_shoe_full
                            /\ known_cards' = known_cards
       ]_vars
    /\ [](pc # "call" /\ pc # "raised" =>
            \A r \in Ranks : Count(base_shoe_full, r) =
               (IF r = 10 THEN 16 ELSE 4) * (IF num_decks > 0 THEN num_decks ELSE 0))

\* the second trial starts, after a first trial that drew from the shoe
C10_Witness ==
    /\ pc = "hidden"
    /\ trial = 1
    /\ cards_seen_history # << >>
    /\ Len(shoe) = 3
    /\ CounterSum(dealer_totals) = 1

\* a step in which the hand being played takes a card: its value changes
C11_PlayerDraws ==
    /\ pc \in { "double", "hitloop" }
    /\ << total, soft >>' # << total, soft >>

\* a step in which the dealer takes a card after the hidden one
C11_DealerDraws ==
    /\ pc = "dealer"
    /\ << d_total, d_soft >>' # << d_total, d_soft >>

\* the card o was taken from the shoe when there was one to take
C11_TakenFromShoe(o) ==
    shoe # << >> =>
        /\ ~o.fallback
        /\ o.card \in Range(shoe)
        /\ Len(shoe') = Len(shoe) - 1
        /\ \A r \in Ranks :
             Count(shoe', r) = Count(shoe, r) - (IF r = o.card THEN 1 ELSE 0)

\* C11: in every trial the hidden card is the first card taken from the
\* seeded shoe; the hands then draw in input order, a hand drawing only when
\* every hand before it is finished; the dealer's further draws come when
\* every hand is finished, and no hand draws after them.  The hidden card
\* leaves the shoe when it is drawn, so the shoe the hands draw from holds
\* one card of that rank fewer than the seeded shoe.
C11_DrawOrder ==
    /\ [][ /\ pc = "hidden" =>
                /\ last_draw = NoDraw
                /\ CounterSum(hidden_card_counts) = trial
                /\ \A r \in Ranks : Count(shoe, r) = C10_Expected(r)
                /\ last_draw'.who = "hidden"
                /\ last_draw'.card = hidden'
                /\ CounterSum(hidden_card_counts') = trial + 1
                /\ C11_TakenFromShoe(last_draw')
                /\ player_results' = << >>
           /\ C11_PlayerDraws =>
                /\ CounterSum(hidden_card_counts) = trial + 1
                /\ last_draw.who \in { "hidden", "player" }
                /\ idx \in Players
                /\ Len(player_results) = idx - 1
                /\ last_draw'.who = "player"
                /\ C11_TakenFromShoe(last_draw')
                /\ idx' \in { idx, idx + 1 }
           /\ C11_DealerDraws =>
                /\ CounterSum(hidden_card_counts) = trial + 1
                /\ Len(player_results) = Len(players_hands)
                /\ idx = Len(players_hands) + 1
                /\ last_draw'.who = "dealer"
                /\ C11_TakenFromShoe(last_draw')
           /\ (last_draw.who = "dealer" /\ pc' # "hidden") =>
                /\ last_draw'.who = "dealer"
                /\ << total, soft, player_results >>' =
                     << total, soft, player_results >>
           /\ (player_results' # player_results /\ pc \notin { "loop", "hidden" }) =>
                /\ Len(player_results) = idx - 1
                /\ Len(player_results') = idx
                /\ idx' = idx + 1
                /\ \A i \in 1..Len(player_results) :
                     player_results'[i] = player_results[i]
           /\ (shoe' # shoe /\ pc # "loop") =>
                (pc = "hidden" \/ C11_PlayerDraws \/ C11_DealerDraws)
       ]_vars
    /\ []((pc \in { "player", "double", "hitloop", "dealer", "score" }
           /\ \E r \in Ranks : C10_Expected(r) > 0) =>
            /\ Count(shoe, hidden) <= C10_Expected(hidden) - 1
            /\ \A r \in Ranks : Count(shoe, r) <= C10_Expected(r))

\* three cards in the seeded shoe: the hidden card, then one card for each of
\* the two doubled hands in turn, and the dealer's draw found the shoe empty
C11_Witness ==
    /\ pc = "score"
    /\ Len(players_hands) = 2
    /\ Len(player_results) = 2
    /\ hidden = 10
    /\ player_results[1][2] = 18
    /\ player_results[2][2] = 14
    /\ last_draw.who = "dealer"
    /\ last_draw.fallback
    /\ shoe = << >>

C13_Dealt == compute_total_and_soft(players_hands[idx])

\* C13: a hand whose first answer from the table is Double takes exactly
\* one card and is finished with the total that card gives, without a
\* further lookup or draw, also when the table would answer Hit on that
\* total; a hand to which the table answers Double after it has drawn by
\* hitting takes no further card and is finished with the total on which
\* Double was answered.
C13_DoubleEndsTheHand ==
    /\ [][ /\ (pc = "player" /\ idx \in Players /\ action' = Double
                /\ pc' # "raised") =>
                /\ AdvisorTable(C13_Dealt[1], dealer_upcard, C13_Dealt[2]) = Double
                /\ << total, soft >>' = C13_Dealt
                /\ pc' = "double"
                /\ shoe' = shoe /\ last_draw' = last_draw
                /\ player_results' = player_results
           /\ pc = "double" =>
                /\ action = Double
                /\ << total, soft >> = C13_Dealt
                /\ last_draw'.who = "player"
                /\ << total, soft >>' = _apply_card(total, soft, last_draw'.card)
                /\ Len(shoe') = (IF shoe = << >> THEN 0 ELSE Len(shoe) - 1)
                /\ action' = Double
                /\ player_results' =
                     Append(player_results, << total' > 21, total' >>)
                /\ idx' = idx + 1
                /\ pc' = "player"
           /\ (pc = "hitloop" /\ action = Double) =>
                /\ AdvisorTable(total, dealer_upcard, soft) = Double
                /\ << total, soft >> # C13_Dealt
                /\ shoe' = shoe /\ last_draw' = last_draw
                /\ << total, soft, action >>' = << total, soft, action >>
                /\ player_results' =
                     Append(player_results, << FALSE, total >>)
                /\ idx' = idx + 1
                /\ pc' = "player"
           /\ (pc = "player" /\ idx \in Players
                /\ AdvisorTable(C13_Dealt[1], dealer_upcard, C13_Dealt[2]) = Double) =>
                pc' = "double"
           /\ (pc = "player" /\ idx' = idx) =>
                (pc' = "double") = (idx \in Players /\ action' = Double
                                    /\ pc' # "raised")
       ]_vars
    /\ [](pc = "double" => action = Double /\ << total, soft >> = C13_Dealt)
    /\ []((pc = "hitloop" /\ << total, soft >> = C13_Dealt) => action # Double)
    /\ []((pc = "hitloop" /\ action = Double) =>
            (last_draw.who = "player" /\ total <= 11))

\* against a 3, the hand dealt 9 doubled, drew a 3 and was finished on 12,
\* where the table answers Hit; the hand dealt 6 hit, drew a 3 and was
\* finished on 9, where the table answers Double
C13_Witness ==
    /\ pc = "player"
    /\ idx = 3
    /\ dealer_upcard = 3
    /\ players_hands = << << 5, 4 >>, << 4, 2 >> >>
    /\ player_results = << << FALSE, 12 >>, << FALSE, 9 >> >>
    /\ AdvisorTable(12, 3, FALSE) = Hit
    /\ AdvisorTable(9, 3, FALSE) = Double
    /\ action = Double

\* the value of a hand with every Ace counted 1
C14_Low(t, s) == IF s THEN t - 10 ELSE t

\* what a draw does to a hand worth (t, s) that becomes worth (t1, s1): the
\* total goes up by 1 or more, unless the hand turns from soft to hard, which
\* a hand does once (a hard hand of 11 or more stays hard)
C14_DrawRaises(t, s, t1, s1) ==
    /\ t < 22
    /\ C14_Low(t1, s1) >= C14_Low(t, s) + 1
    /\ t1 < t + 1 => (s /\ ~s1 /\ t1 >= 12)
    /\ (~s /\ t >= 11) => ~s1

\* C14: with hands and upcard of ranks in 2..11 and whatever ranks are
\* drawn, every hit loop ends (the hand is finished), the dealer's loop ends
\* (the trial is scored), every trial ends, and the call returns after
\* exactly `simulations` trials: a draw is made only on a total below 22
\* and raises the hand's total by at least 1, except that a soft hand may
\* turn hard, once.
C14_TrialsTerminate ==
    /\ (pc \in { "double", "hitloop" }) ~> (pc = "player")
    /\ (pc = "dealer") ~> (pc = "score")
    /\ (pc = "hidden") ~> (pc = "loop")
    /\ <>(pc = "returned" /\ trial = simulations
            /\ CounterSum(hidden_card_counts) = simulations)
    /\ [][ /\ C11_PlayerDraws =>
                C14_DrawRaises(total, soft, total', soft')
           /\ C11_DealerDraws =>
                C14_DrawRaises(d_total, d_soft, d_total', d_soft')
           /\ trial' # trial => (pc = "score" /\ trial' = trial + 1)
       ]_vars
    /\ [](pc = "returned" => trial = simulations)
    /\ [](trial <= simulations)

\* Ace and 2 against a 10: the soft 13 drew until it was a hard 17, which
\* takes a card that turned it hard and a card after that, and the call
\* returned
C14_Witness ==
    /\ pc = "returned"
    /\ trial = 1
    /\ players_hands = << << 11, 2 >> >>
    /\ dealer_upcard = 10
    /\ player_results = << << FALSE, 17 >> >>
    /\ total = 17 /\ ~soft
    /\ d_total >= 17

=============================================================================
